---- MODULE Spec2Model ----
(***************************************************************************)
(* The resolve -> cache -> enrich pipeline of the drug legality backend    *)
(* (processSubstanceQuery and the /api/predict route), with the cache      *)
(* store (the psychedelic_access table behind PostgREST) and the two       *)
(* inference providers as the environment.                                 *)
(*                                                                         *)
(* A JavaScript string is a sequence of characters (TLA+ strings); a fixed *)
(* piece of text that is never inspected may be a single element.          *)
(* A JavaScript value is a record [t, s, m]: t the type tag, s the text of *)
(* a string, number or boolean, m the members of an object or array in     *)
(* insertion order, each [k |-> key, v |-> value].                         *)
(***************************************************************************)
EXTENDS Integers, Sequences, FiniteSets, TLC

(* ------------------------- JavaScript values --------------------------- *)

JUndefined == [t |-> "undefined", s |-> <<>>, m |-> <<>>]
JNull      == [t |-> "null", s |-> <<>>, m |-> <<>>]
JTrue      == [t |-> "boolean", s |-> <<"true">>, m |-> <<>>]
JFalse     == [t |-> "boolean", s |-> <<"false">>, m |-> <<>>]
JNum(s)    == [t |-> "number", s |-> s, m |-> <<>>]
JStr(s)    == [t |-> "string", s |-> s, m |-> <<>>]
JObj(m)    == [t |-> "object", s |-> <<>>, m |-> m]
JArr(m)    == [t |-> "array", s |-> <<>>, m |-> m]
Member(k, v) == [k |-> k, v |-> v]

\* JavaScript truthiness, as tested by `!x` and `x || y`.
Truthy(v) ==
    CASE v.t = "undefined" -> FALSE
      [] v.t = "null"      -> FALSE
      [] v.t = "boolean"   -> v.s = <<"true">>
      [] v.t = "number"    -> v.s # <<"0">>
      [] v.t = "string"    -> v.s # <<>>
      [] OTHER             -> TRUE

\* A completion: the value an expression returned, or that it threw.
Returned(v) == [threw |-> FALSE, value |-> v]
Threw       == [threw |-> TRUE, value |-> JUndefined]

HasMember(m, k) == \E i \in 1..Len(m) : m[i].k = k
MemberValue(m, k) == m[CHOOSE i \in 1..Len(m) : m[i].k = k].v

\* v.key for a key that is no built-in property: a TypeError on null and
\* undefined, undefined on a primitive or when the object has no such member.
GetProp(v, key) ==
    IF v.t \in {"undefined", "null"} THEN Threw
    ELSE IF v.t = "object" /\ HasMember(v.m, key) THEN Returned(MemberValue(v.m, key))
    ELSE Returned(JUndefined)

\* obj[k] = v while decoding: a repeated key keeps its place and takes the
\* last value.
SetMember(m, k, v) ==
    IF HasMember(m, k)
    THEN [i \in 1..Len(m) |-> IF m[i].k = k THEN Member(k, v) ELSE m[i]]
    ELSE Append(m, Member(k, v))

(* ----------------------------- characters ------------------------------ *)

UpperLetters == {"A", "C", "D", "L", "M", "S", "U"}

LowerOf(c) ==
    CASE c = "A" -> "a" [] c = "C" -> "c" [] c = "D" -> "d" [] c = "L" -> "l"
      [] c = "M" -> "m" [] c = "S" -> "s" [] c = "U" -> "u" [] OTHER -> c

\* String.prototype.toLowerCase
toLowerCase(s) == [i \in 1..Len(s) |-> LowerOf(s[i])]

(* ------------------------------ JSON text ------------------------------ *)

\* The text of a provider's reply is a sequence of JSON tokens (white space
\* is gone: the code trims it and JSON.parse skips it); a reply without
\* content is undefined.
Tok(k, s) == [k |-> k, s |-> s]
LBrace    == Tok("{", <<>>)
RBrace    == Tok("}", <<>>)
LBrack    == Tok("[", <<>>)
RBrack    == Tok("]", <<>>)
Colon     == Tok(":", <<>>)
Comma     == Tok(",", <<>>)
TNull     == Tok("null", <<>>)
TTrue     == Tok("true", <<>>)
TNum(s)   == Tok("num", s)
TStr(s)   == Tok("str", s)
TWord(s)  == Tok("word", s)

Text(toks)   == [defined |-> TRUE, toks |-> toks]
NoContent    == [defined |-> FALSE, toks |-> <<>>]

\* ToString of the argument of JSON.parse: undefined reads "undefined".
ToText(raw) == IF raw.defined THEN raw.toks ELSE <<TWord(<<"undefined">>)>>

ParseOk(v, next) == [ok |-> TRUE, v |-> v, next |-> next]
ParseFail        == [ok |-> FALSE, v |-> JUndefined, next |-> 0]

RECURSIVE ParseValue(_, _), ParseMembers(_, _, _), ParseElements(_, _, _)

\* One JSON value starting at token i.
ParseValue(toks, i) ==
    IF i > Len(toks) THEN ParseFail
    ELSE CASE toks[i].k = "null" -> ParseOk(JNull, i + 1)
           [] toks[i].k = "true" -> ParseOk(JTrue, i + 1)
           [] toks[i].k = "num"  -> ParseOk(JNum(toks[i].s), i + 1)
           [] toks[i].k = "str"  -> ParseOk(JStr(toks[i].s), i + 1)
           [] toks[i].k = "{"    ->
                IF i + 1 <= Len(toks) /\ toks[i + 1].k = "}"
                THEN ParseOk(JObj(<<>>), i + 2)
                ELSE ParseMembers(toks, i + 1, <<>>)
           [] toks[i].k = "["    ->
                IF i + 1 <= Len(toks) /\ toks[i + 1].k = "]"
                THEN ParseOk(JArr(<<>>), i + 2)
                ELSE ParseElements(toks, i + 1, <<>>)
           [] OTHER -> ParseFail

\* "key": value pairs up to the closing brace, the first pair at token i.
ParseMembers(toks, i, acc) ==
    IF i + 1 > Len(toks) THEN ParseFail
    ELSE IF toks[i].k # "str" \/ toks[i + 1].k # ":" THEN ParseFail
    ELSE LET r == ParseValue(toks, i + 2) IN
         IF ~r.ok \/ r.next > Len(toks) THEN ParseFail
         ELSE LET acc2 == SetMember(acc, toks[i].s, r.v) IN
              CASE toks[r.next].k = "}" -> ParseOk(JObj(acc2), r.next + 1)
                [] toks[r.next].k = "," -> ParseMembers(toks, r.next + 1, acc2)
                [] OTHER -> ParseFail

\* Array elements up to the closing bracket, the first element at token i.
ParseElements(toks, i, acc) ==
    LET r == ParseValue(toks, i) IN
    IF ~r.ok \/ r.next > Len(toks) THEN ParseFail
    ELSE LET acc2 == Append(acc, Member(<<>>, r.v)) IN
         CASE toks[r.next].k = "]" -> ParseOk(JArr(acc2), r.next + 1)
           [] toks[r.next].k = "," -> ParseElements(toks, r.next + 1, acc2)
           [] OTHER -> ParseFail

\* JSON.parse: the decoded value, or a SyntaxError unless the whole text is
\* one value.
JSONParse(raw) ==
    LET r == ParseValue(ToText(raw), 1) IN
    IF r.ok /\ r.next = Len(ToText(raw)) + 1 THEN Returned(r.v) ELSE Threw

\* safeParseJSON without its try/catch.
safeParseJSONUnguarded(raw, fallback) == JSONParse(raw)

\* safeParseJSON(raw, fallback): try JSON.parse, on a throw return fallback.
safeParseJSON(raw, fallback) ==
    IF JSONParse(raw).threw THEN Returned(fallback) ELSE JSONParse(raw)

(* --------------------------- resolution step --------------------------- *)

KResolvedName  == <<"resolved_name">>
KMessage       == <<"message">>
KAccessStatus  == <<"access_status">>
KReferenceLink == <<"reference_link">>

\* `No known record of '${rawQuery}'`
NoKnownRecord(rawQuery) == <<"No known record of '">> \o rawQuery \o <<"'">>

\* The fallback resolveSubstance hands to safeParseJSON.
ResolverFallback(rawQuery) ==
    JObj(<<Member(KResolvedName, JNull),
           Member(KMessage, JStr(NoKnownRecord(rawQuery)))>>)

ResolveResult(success, message, name, key) ==
    [threw |-> FALSE, success |-> success, message |-> message,
     resolved_name |-> name, normalizedSubstance |-> key]
ResolveThrew ==
    [threw |-> TRUE, success |-> FALSE, message |-> JUndefined,
     resolved_name |-> JUndefined, normalizedSubstance |-> <<>>]

\* `parsed.resolved_name === null` in place of `!parsed.resolved_name`.
IsUnresolvedStrict(name) == name.t = "null"

\* `!parsed.resolved_name`: the resolver's answer counts as unresolved.
IsUnresolved(name) == ~Truthy(name)

\* The key taken from resolved_name as it is, not lower-cased.
NormalizeNameKeepCase(name) ==
    IF name.t = "string" THEN Returned(name) ELSE Threw

\* parsed.resolved_name.toLowerCase(): a TypeError unless it is a string.
NormalizeName(name) ==
    IF name.t = "string" THEN Returned(JStr(toLowerCase(name.s))) ELSE Threw

\* resolveSubstance from the provider's reply on: parse, test resolved_name,
\* normalize.
resolveSubstance(raw, rawQuery) ==
    LET parsed == safeParseJSON(raw, ResolverFallback(rawQuery))
        name   == GetProp(parsed.value, KResolvedName)
    IN  IF parsed.threw \/ name.threw THEN ResolveThrew
        ELSE IF IsUnresolved(name.value)
        THEN ResolveResult(FALSE, GetProp(parsed.value, KMessage).value,
                           JUndefined, <<>>)
        ELSE IF NormalizeName(name.value).threw THEN ResolveThrew
        ELSE ResolveResult(TRUE, JUndefined, name.value,
                           NormalizeName(name.value).value.s)

(* ----------------------------- cache store ----------------------------- *)

\* One row of psychedelic_access.
Row(substance, code, status, link, at) ==
    [substance |-> substance, country_code |-> code, access_status |-> status,
     reference_link |-> link, updated_at |-> at]

SamePair(r1, r2) ==
    r1.substance = r2.substance /\ r1.country_code = r2.country_code

\* GET psychedelic_access?substance=eq.<key>: the rows whose substance is
\* exactly the key.
SelectBySubstance(table, key) ==
    SelectSeq(table, LAMBDA r : r.substance = key)

\* A plain insert: every posted row is added.
InsertRows(table, rows) == table \o rows

\* One posted row under resolution=ignore-duplicates: the row already held
\* for the pair stays.
MergeRowKeepFirst(table, row) ==
    IF \E i \in 1..Len(table) : SamePair(table[i], row)
    THEN table
    ELSE Append(table, row)

\* One posted row under resolution=merge-duplicates: it replaces the row with
\* the same (substance, country_code), or is added.
MergeRow(table, row) ==
    IF \E i \in 1..Len(table) : SamePair(table[i], row)
    THEN [i \in 1..Len(table) |-> IF SamePair(table[i], row) THEN row ELSE table[i]]
    ELSE Append(table, row)

RECURSIVE MergeRows(_, _)
MergeRows(table, rows) ==
    IF rows = <<>> THEN table
    ELSE MergeRows(MergeRow(table, Head(rows)), Tail(rows))

\* POST psychedelic_access with Prefer: resolution=merge-duplicates.
PostMergeDuplicates(table, rows) == MergeRows(table, rows)

\* The reply to a store request: not ok when the store is unreachable or
\* answers with a non-success status.
StoreReply(ok, rows) == [ok |-> ok, rows |-> rows]

CacheResult(found, data, error) == [found |-> found, data |-> data, error |-> error]
NoCache == CacheResult(FALSE, <<>>, FALSE)

\* checkSupabaseCache testing `results.length > 1`.
checkSupabaseCacheOffByOne(reply) ==
    IF ~reply.ok THEN CacheResult(FALSE, <<>>, TRUE)
    ELSE IF Len(reply.rows) > 1 THEN CacheResult(TRUE, reply.rows, FALSE)
    ELSE CacheResult(FALSE, <<>>, FALSE)

\* checkSupabaseCache from the store's reply on.
checkSupabaseCache(reply) ==
    IF ~reply.ok THEN CacheResult(FALSE, <<>>, TRUE)
    ELSE IF Len(reply.rows) > 0 THEN CacheResult(TRUE, reply.rows, FALSE)
    ELSE CacheResult(FALSE, <<>>, FALSE)

\* `if (!rows || rows.length === 0) return` in saveToSupabaseCache.
NothingToSave(rows) == Len(rows) = 0

\* saveToSupabaseCache whose rows reach the table whatever the store answers.
saveToSupabaseCacheRegardless(table, rows, ok) ==
    [table |-> PostMergeDuplicates(table, rows),
     returned |-> IF ok THEN "true" ELSE "false"]

\* saveToSupabaseCache once the store has answered its POST (ok or not): the
\* table afterwards and the value returned.
saveToSupabaseCache(table, rows, ok) ==
    IF NothingToSave(rows) THEN [table |-> table, returned |-> "undefined"]
    ELSE IF ok THEN [table |-> PostMergeDuplicates(table, rows), returned |-> "true"]
    ELSE [table |-> table, returned |-> "false"]

(* --------------------------- legal status step ------------------------- *)

Digits == <<"0", "1", "2", "3", "4", "5", "6", "7", "8", "9">>

\* Object.entries: a TypeError on null and undefined, the members of an
\* object, the indexed elements of an array or the characters of a string,
\* nothing for a number or a boolean.
ObjectEntries(v) ==
    CASE v.t \in {"undefined", "null"} -> [threw |-> TRUE, entries |-> <<>>]
      [] v.t = "object" -> [threw |-> FALSE, entries |-> v.m]
      [] v.t = "array"  ->
           [threw |-> FALSE,
            entries |-> [i \in 1..Len(v.m) |-> Member(<<Digits[i]>>, v.m[i].v)]]
      [] v.t = "string" ->
           [threw |-> FALSE,
            entries |-> [i \in 1..Len(v.s) |-> Member(<<Digits[i]>>, JStr(<<v.s[i]>>))]]
      [] OTHER -> [threw |-> FALSE, entries |-> <<>>]

\* /^[A-Z]{2}$/.test(code)
IsCountryCode(code) ==
    Len(code) = 2 /\ code[1] \in UpperLetters /\ code[2] \in UpperLetters

\* x || d
OrElse(x, d) == IF Truthy(x) THEN x ELSE d

StatusUnknown == JStr(<<"Unknown">>)

\* The row stamped with no substance at all.
EntryRowUnstamped(entry, normalizedSubstance, at) ==
    Row(<<>>, entry.k,
        OrElse(GetProp(entry.v, KAccessStatus).value, StatusUnknown),
        OrElse(GetProp(entry.v, KReferenceLink).value, JNull), at)

\* The row stamped with the country code as its substance.
EntryRowSwapped(entry, normalizedSubstance, at) ==
    Row(entry.k, entry.k,
        OrElse(GetProp(entry.v, KAccessStatus).value, StatusUnknown),
        OrElse(GetProp(entry.v, KReferenceLink).value, JNull), at)

\* The row built from one [country_code, obj] entry; obj.access_status is a
\* TypeError when obj is null.
EntryRow(entry, normalizedSubstance, at) ==
    Row(normalizedSubstance, entry.k,
        OrElse(GetProp(entry.v, KAccessStatus).value, StatusUnknown),
        OrElse(GetProp(entry.v, KReferenceLink).value, JNull), at)

\* The raw text is empty or missing: `if (!raw) throw`.
IsEmptyReply(raw) == ~raw.defined \/ raw.toks = <<>>

\* getSubstanceLegalStatus from the provider's reply on.
getSubstanceLegalStatus(raw, normalizedSubstance, at) ==
    IF IsEmptyReply(raw) THEN [threw |-> TRUE, rows |-> <<>>]
    ELSE LET parsed  == safeParseJSON(raw, JObj(<<>>))
             all     == ObjectEntries(parsed.value)
             entries == SelectSeq(all.entries, LAMBDA e : IsCountryCode(e.k))
         IN  IF parsed.threw \/ all.threw
                \/ \E i \in 1..Len(entries) : GetProp(entries[i].v, KAccessStatus).threw
             THEN [threw |-> TRUE, rows |-> <<>>]
             ELSE [threw |-> FALSE,
                   rows |-> [i \in 1..Len(entries) |->
                               EntryRow(entries[i], normalizedSubstance, at)]]

(* ------------------------------- bounds -------------------------------- *)

\* Requests received in one run, over all connections.
MaxRequests == 2

\* The requests in flight at a time.
Conns == {"c1", "c2"}

(* ----------------------------- environment ----------------------------- *)

Molly   == <<"m", "o", "l", "l", "y">>
Mdma    == <<"M", "D", "M", "A">>
Lsd     == <<"L", "S", "D">>
Unknown == <<"randomword123">>

\* req.body.prompt: absent, empty, or a query.
Prompts == {JUndefined, JStr(<<>>), JStr(Molly), JStr(Unknown)}

NameReply(v) == Text(<<LBrace, TStr(KResolvedName), Colon, v, RBrace>>)

\* What the resolver provider may answer: well-formed answers, and text that
\* does not conform.
NoRecordReply ==
    Text(<<LBrace, TStr(KResolvedName), Colon, TNull, Comma,
           TStr(KMessage), Colon, TStr(NoKnownRecord(Unknown)), RBrace>>)
EmptyObjectText == Text(<<LBrace, RBrace>>)
TruncatedText   == Text(<<LBrace, TStr(KResolvedName), Colon>>)
NotJsonText     == Text(<<TWord(<<"not">>), TWord(<<"json">>)>>)
EmptyText       == Text(<<>>)
NullText        == Text(<<TNull>>)
NumberText      == Text(<<TNum(<<"5">>)>>)
StringText      == Text(<<TStr(Mdma)>>)
EmptyArrayText  == Text(<<LBrack, RBrack>>)

ResolverTexts ==
    { NameReply(TStr(Mdma)), NameReply(TStr(toLowerCase(Mdma))), NameReply(TStr(Lsd)),
      NoRecordReply, NameReply(TNull), NameReply(TStr(<<>>)), NameReply(TNum(<<"5">>)),
      EmptyObjectText, TruncatedText, NotJsonText, EmptyText, NoContent,
      NullText, NumberText, StringText, EmptyArrayText }

ProviderReply(raised, raw) == [raised |-> raised, raw |-> raw]
Raised == ProviderReply(TRUE, NoContent)

ResolverReplies == {Raised} \cup {ProviderReply(FALSE, t) : t \in ResolverTexts}

US == <<"U", "S">>
CA == <<"C", "A">>

StatusObject(status) ==
    <<LBrace, TStr(KAccessStatus), Colon, TStr(<<status>>), RBrace>>

\* What the legal status provider may answer.
LegalTexts ==
    { Text(<<LBrace, TStr(US), Colon, LBrace, TStr(KAccessStatus), Colon,
             TStr(<<"Banned">>), Comma, TStr(KReferenceLink), Colon,
             TStr(<<"https://www.dea.gov">>), RBrace, RBrace>>),
      Text(<<LBrace, TStr(US), Colon>> \o StatusObject("Approved Medical Use")
             \o <<Comma, TStr(toLowerCase(US)), Colon>> \o StatusObject("Banned")
             \o <<Comma, TStr(CA), Colon, TStr(<<"Banned">>), RBrace>>),
      Text(<<LBrace, TStr(US), Colon, TNull, RBrace>>),
      Text(<<LBrace, TStr(CA), Colon>> \o StatusObject("Legal") \o <<RBrace>>),
      EmptyObjectText, NotJsonText, EmptyText, NoContent }

LegalReplies == {Raised} \cup {ProviderReply(FALSE, t) : t \in LegalTexts}

List(values) == JArr([i \in 1..Len(values) |-> Member(<<>>, values[i])])

\* req.body.substances of /api/refresh: absent, empty, or a list.
RefreshBodies ==
    { JUndefined, List(<<>>), List(<<JStr(Mdma)>>), List(<<JStr(Mdma), JStr(Lsd)>>),
      List(<<JNum(<<"5">>)>>) }

(* -------------------------------- state -------------------------------- *)

VARIABLES
    store,      \* the rows of psychedelic_access
    now,        \* the clock read by new Date()
    served,     \* the requests received so far
    populated,  \* the keys a cache-miss request has written rows for
    req,        \* per connection, the request it carries
    batch,      \* SaveSpec: the record set handed to saveToSupabaseCache
    applied,    \* SaveSpec: the replies of the store to the calls made so far
    once,       \* SaveSpec: the table after the first call
    search      \* SearchSpec: the /api/search-substance request in progress

vars == <<store, now, served, populated, req, batch, applied, once, search>>

Response(status, success, source, data, message, key, name) ==
    [status |-> status, success |-> success, source |-> source, data |-> data,
     message |-> message, normalizedSubstance |-> key, resolved_name |-> name,
     refreshed |-> 0, results |-> <<>>]
NoResponse == Response(0, FALSE, "none", <<>>, JUndefined, <<>>, JUndefined)

\* res.status(400).json({ error: "Missing prompt" })
BadRequest == Response(400, FALSE, "none", <<>>, JUndefined, <<>>, JUndefined)
\* res.status(500).json({ error: err.message })
ServerError == Response(500, FALSE, "none", <<>>, JUndefined, <<>>, JUndefined)
\* res.status(404).json(result), result = { success: false, message }
NotFound(resolved) ==
    Response(404, FALSE, "none", <<>>, resolved.message, <<>>, JUndefined)
\* res.json(result), result = { success: true, source, data, ... }
Success(source, data, resolved) ==
    Response(200, TRUE, source, data, JUndefined,
             resolved.normalizedSubstance, resolved.resolved_name)

\* A connection with no request on it.
Idle ==
    [pc |-> "idle", route |-> "none", prompt |-> JUndefined,
     substances |-> JUndefined, idx |-> 0, normalized |-> <<>>, results |-> <<>>,
     saveReturned |-> "none", sent |-> 0, cold |-> {}, resolverReply |-> Raised,
     parsed |-> Threw, resolved |-> ResolveThrew, lookup |-> "none",
     lookupReply |-> StoreReply(FALSE, <<>>), cache |-> NoCache,
     legalReply |-> Raised, legalRows |-> <<>>, saved |-> "none",
     calls |-> <<>>, warm |-> {}, resp |-> NoResponse]

\* `if (cache.found) return { source: "cache", data: cache.data }`
CacheHit(cache) == cache.found

\* fetchOrQueryLegalData throwing when the save reported a failure.
FreshResultStrict(legalRows, saved) ==
    [threw |-> saved = "failed", source |-> "openai", data |-> legalRows]

\* What fetchOrQueryLegalData returns once saveToSupabaseCache is back.
FreshResult(legalRows, saved) == [threw |-> FALSE, source |-> "openai", data |-> legalRows]

\* `if (!normalizedSubstance) throw` at the head of getSubstanceLegalStatus.
MissingSubstance(normalizedSubstance) == normalizedSubstance = <<>>

\* /api/search-substance with no request on it.
SearchIdle ==
    [pc |-> "idle", substance |-> JUndefined, resolverParsed |-> JUndefined,
     normalizedSubstance |-> <<>>, lookupKey |-> <<>>, rows |-> <<>>, posted |-> FALSE,
     status |-> 0, success |-> FALSE, source |-> "none", count |-> 0]

Init ==
    /\ search = SearchIdle
    /\ store = <<>>
    /\ now = 0
    /\ served = 0
    /\ populated = {}
    /\ req = [c \in Conns |-> Idle]
    /\ batch = <<>>
    /\ applied = <<>>
    /\ once = <<>>

\* The handler sends its response and returns.
Respond(r, resp) == [r EXCEPT !.pc = "done", !.resp = resp, !.sent = @ + 1]

Finish(c, r, resp) == req' = [req EXCEPT ![c] = Respond(r, resp)]

\* getSubstanceLegalStatus returning no rows where the provider call raised.
LegalFailureSwallowed(r) ==
    Respond([r EXCEPT !.saved = "skipped"], Success("openai", <<>>, r.resolved))

\* The provider called again where its call raised.
LegalFailureRetried(r) == [r EXCEPT !.calls = Append(@, "enrich")]

\* The error caught and the handler left waiting, no response sent.
LegalFailureDropped(r) == [r EXCEPT !.pc = "stuck"]

\* The 500 carries the results gathered before the failure.
LegalFailureWithResults(r) ==
    Respond(r, [ServerError EXCEPT !.refreshed = Len(r.results), !.results = r.results])

\* getSubstanceLegalStatus threw: `catch (err) { throw err }`, nothing in
\* fetchOrQueryLegalData or processSubstanceQuery catches, the route's catch
\* answers 500.
LegalFailure(r) == Respond(r, ServerError)

\* A finished /api/predict request answered { source: "openai", data: [] }.
FreshEmpty(r) ==
    /\ r.route = "predict" /\ r.pc = "done"
    /\ r.resp.status = 200 /\ r.resp.source = "openai" /\ r.resp.data = <<>>

\* The keys for which the requests last finished on the connections were
\* answered with a fresh, empty record list.
ColdKeys ==
    {req[d].resolved.normalizedSubstance : d \in {e \in Conns : FreshEmpty(req[e])}}

\* POST /api/predict arrives: the prompt is validated and the resolver called.
Receive(c) ==
    /\ req[c].pc \in {"idle", "done"}
    /\ served < MaxRequests
    /\ served' = served + 1
    /\ \E prompt \in Prompts :
         LET r == [Idle EXCEPT !.route = "predict", !.prompt = prompt,
                               !.warm = populated, !.cold = ColdKeys] IN
         IF ~Truthy(prompt)
         THEN Finish(c, r, BadRequest)
         ELSE req' = [req EXCEPT ![c] =
                        [r EXCEPT !.pc = "resolving", !.calls = <<"resolve">>]]
    /\ UNCHANGED <<store, now, populated, batch, applied, once, search>>

\* hf.chatCompletion returns or raises: the rest of resolveSubstance, and
\* processSubstanceQuery up to the cache lookup.
ResolverReturns(c) ==
    /\ req[c].pc = "resolving"
    /\ \E reply \in ResolverReplies :
         LET r0 == [req[c] EXCEPT
                      !.resolverReply = reply,
                      !.parsed = IF reply.raised THEN Threw
                                 ELSE safeParseJSON(reply.raw,
                                                    ResolverFallback(req[c].prompt.s))]
             resolved == resolveSubstance(reply.raw, req[c].prompt.s)
             r == [r0 EXCEPT !.resolved = resolved]
         IN  IF reply.raised \/ resolved.threw THEN Finish(c, r0, ServerError)
             ELSE IF ~resolved.success THEN Finish(c, r, NotFound(resolved))
             ELSE req' = [req EXCEPT ![c] =
                            [r EXCEPT !.pc = "lookup", !.calls = Append(@, "lookup")]]
    /\ UNCHANGED <<store, now, served, populated, batch, applied, once, search>>

\* The store answers the lookup: the rest of checkSupabaseCache, and
\* fetchOrQueryLegalData up to the legal status call.
LookupReturns(c) ==
    /\ req[c].pc = "lookup"
    /\ \E ok \in BOOLEAN :
         LET key   == req[c].resolved.normalizedSubstance
             reply == StoreReply(ok, IF ok THEN SelectBySubstance(store, key) ELSE <<>>)
             cache == checkSupabaseCache(reply)
             r     == [req[c] EXCEPT !.lookup = IF ok THEN "ok" ELSE "failed",
                                     !.lookupReply = reply, !.cache = cache]
         IN  IF CacheHit(cache)
             THEN Finish(c, r, Success("cache", cache.data, req[c].resolved))
             ELSE IF MissingSubstance(key) THEN Finish(c, r, ServerError)
             ELSE req' = [req EXCEPT ![c] =
                            [r EXCEPT !.pc = "enriching", !.calls = Append(@, "enrich")]]
    /\ UNCHANGED <<store, now, served, populated, batch, applied, once, search>>

\* openai.chat.completions.create returns or raises: the rest of
\* getSubstanceLegalStatus, and saveToSupabaseCache up to its POST.
LegalStatusReturns(c) ==
    /\ req[c].pc = "enriching"
    /\ \E reply \in LegalReplies :
         LET key   == req[c].resolved.normalizedSubstance
             legal == getSubstanceLegalStatus(reply.raw, key, now)
             r0    == [req[c] EXCEPT !.legalReply = reply]
             r     == [r0 EXCEPT !.legalRows = legal.rows]
         IN  IF reply.raised \/ legal.threw
             THEN req' = [req EXCEPT ![c] = LegalFailure(r0)] /\ now' = now
             ELSE IF NothingToSave(legal.rows)
             THEN /\ Finish(c, [r EXCEPT !.saved = "skipped",
                                          !.saveReturned =
                                             saveToSupabaseCache(store, legal.rows, TRUE).returned],
                            Success(FreshResult(legal.rows, "skipped").source,
                                    FreshResult(legal.rows, "skipped").data,
                                    req[c].resolved))
                  /\ now' = now
             ELSE /\ req' = [req EXCEPT ![c] =
                               [r EXCEPT !.pc = "saving", !.calls = Append(@, "save")]]
                  /\ now' = now + 1
    /\ UNCHANGED <<store, served, populated, batch, applied, once, search>>

\* The store answers the POST: the rest of saveToSupabaseCache and of
\* fetchOrQueryLegalData, and the route's response.
SaveReturns(c) ==
    /\ req[c].pc = "saving"
    /\ \E ok \in BOOLEAN :
         LET saved  == IF ok THEN "ok" ELSE "failed"
             result == FreshResult(req[c].legalRows, saved)
             r      == [req[c] EXCEPT
                          !.saved = saved,
                          !.saveReturned =
                             saveToSupabaseCache(store, req[c].legalRows, ok).returned]
         IN  /\ store' = saveToSupabaseCache(store, req[c].legalRows, ok).table
             /\ populated' = IF ok
                             THEN populated \cup {req[c].resolved.normalizedSubstance}
                             ELSE populated
             /\ IF result.threw THEN Finish(c, r, ServerError)
                ELSE Finish(c, r, Success(result.source, result.data, req[c].resolved))
    /\ UNCHANGED <<now, served, batch, applied, once, search>>

\* res.status(400).json({ error: "Missing or invalid 'substances' array" })
BadRefresh == BadRequest

\* res.json({ success: true, refreshed: results.length, results })
RefreshSuccess(results) ==
    [Response(200, TRUE, "none", <<>>, JUndefined, <<>>, JUndefined)
       EXCEPT !.refreshed = Len(results), !.results = results]

\* results.push({ substance: normalized, data })
ResultEntry(normalized, data) == [substance |-> normalized, data |-> data]

\* The head of one loop iteration of /api/refresh for the substance at
\* r.idx: lower-case it and call getSubstanceLegalStatus, which calls the
\* provider unless the name is empty.
BeginSubstance(r) ==
    LET normalized == NormalizeName(r.substances.m[r.idx].v) IN
    IF normalized.threw \/ MissingSubstance(normalized.value.s)
    THEN Respond(r, ServerError)
    ELSE [r EXCEPT !.pc = "refreshing", !.normalized = normalized.value.s,
                   !.calls = Append(@, "enrich")]

\* The loop leaves after its first iteration.
EndSubstanceOnce(r, data) ==
    LET r1 == [r EXCEPT !.results = Append(@, ResultEntry(r.normalized, data))] IN
    Respond(r1, RefreshSuccess(r1.results))

\* The tail of one loop iteration: push the result, then the next substance
\* or the response.
EndSubstance(r, data) ==
    LET r1 == [r EXCEPT !.results = Append(@, ResultEntry(r.normalized, data))] IN
    IF r.idx = Len(r.substances.m)
    THEN Respond(r1, RefreshSuccess(r1.results))
    ELSE BeginSubstance([r1 EXCEPT !.idx = @ + 1])

\* `!Array.isArray(substances) || substances.length === 0`
InvalidSubstances(body) == body.t # "array" \/ Len(body.m) = 0

\* POST /api/refresh arrives: the list is validated and the first substance
\* begun.
RefreshReceive(c) ==
    /\ req[c].pc \in {"idle", "done"}
    /\ served < MaxRequests
    /\ served' = served + 1
    /\ \E body \in RefreshBodies :
         LET r == [Idle EXCEPT !.route = "refresh", !.substances = body] IN
         IF InvalidSubstances(body)
         THEN Finish(c, r, BadRefresh)
         ELSE req' = [req EXCEPT ![c] = BeginSubstance([r EXCEPT !.idx = 1])]
    /\ UNCHANGED <<store, now, populated, batch, applied, once, search>>

\* The provider answers a refresh: the rest of getSubstanceLegalStatus, and
\* saveToSupabaseCache up to its POST.
RefreshLegalReturns(c) ==
    /\ req[c].pc = "refreshing"
    /\ \E reply \in LegalReplies :
         LET legal == getSubstanceLegalStatus(reply.raw, req[c].normalized, now)
             r0    == [req[c] EXCEPT !.legalReply = reply]
             r     == [r0 EXCEPT !.legalRows = legal.rows]
         IN  IF reply.raised \/ legal.threw
             THEN req' = [req EXCEPT ![c] = LegalFailure(r0)] /\ now' = now
             ELSE IF NothingToSave(legal.rows)
             THEN /\ req' = [req EXCEPT ![c] =
                               EndSubstance(
                                 [r EXCEPT !.saved = "skipped",
                                           !.saveReturned =
                                              saveToSupabaseCache(store, legal.rows, TRUE).returned],
                                 legal.rows)]
                  /\ now' = now
             ELSE /\ req' = [req EXCEPT ![c] =
                               [r EXCEPT !.pc = "refresh_saving",
                                         !.calls = Append(@, "save")]]
                  /\ now' = now + 1
    /\ UNCHANGED <<store, served, populated, batch, applied, once, search>>

\* The store answers a refresh's POST: the rest of saveToSupabaseCache and
\* of the loop iteration.
RefreshSaveReturns(c) ==
    /\ req[c].pc = "refresh_saving"
    /\ \E ok \in BOOLEAN :
         LET r == [req[c] EXCEPT
                     !.saved = IF ok THEN "ok" ELSE "failed",
                     !.saveReturned =
                        saveToSupabaseCache(store, req[c].legalRows, ok).returned]
         IN  /\ store' = saveToSupabaseCache(store, req[c].legalRows, ok).table
             /\ req' = [req EXCEPT ![c] = EndSubstance(r, req[c].legalRows)]
    /\ UNCHANGED <<now, served, populated, batch, applied, once, search>>

Next ==
    \E c \in Conns :
        \/ Receive(c)
        \/ ResolverReturns(c)
        \/ LookupReturns(c)
        \/ LegalStatusReturns(c)
        \/ SaveReturns(c)
        \/ RefreshReceive(c)
        \/ RefreshLegalReturns(c)
        \/ RefreshSaveReturns(c)

Spec == Init /\ [][Next]_vars

(* ------------------- saveToSupabaseCache on its own -------------------- *)

\* The latest time stamp of a record set or table row in SaveSpec.
MaxStamp == 2

Keys == {toLowerCase(Mdma), toLowerCase(Lsd)}

\* The record sets getSubstanceLegalStatus can produce.
RecordSets ==
    { getSubstanceLegalStatus(t, k, at).rows :
        t \in LegalTexts, k \in Keys, at \in 1..MaxStamp }

\* Tables as earlier saves leave them.
Tables ==
    { saveToSupabaseCache(saveToSupabaseCache(<<>>, r1, TRUE).table, r2, TRUE).table :
        r1 \in RecordSets, r2 \in RecordSets }

SaveInit ==
    /\ search = SearchIdle
    /\ store \in Tables
    /\ batch \in RecordSets
    /\ applied = <<>>
    /\ once = <<>>
    /\ now = 0
    /\ served = 0
    /\ populated = {}
    /\ req = [c \in Conns |-> Idle]

\* One more call of saveToSupabaseCache with the same record set.
SaveBatch ==
    /\ Len(applied) < 2
    /\ \E ok \in BOOLEAN :
         /\ store' = saveToSupabaseCache(store, batch, ok).table
         /\ applied' = Append(applied, ok)
         /\ once' = IF applied = <<>> THEN store' ELSE once
    /\ UNCHANGED <<batch, now, served, populated, req, search>>

SaveNext == SaveBatch

SaveSpec == SaveInit /\ [][SaveNext]_vars

\* The /api/predict requests of the service, on every connection.
PredictNext ==
    \E c \in Conns :
        \/ Receive(c)
        \/ ResolverReturns(c)
        \/ LookupReturns(c)
        \/ LegalStatusReturns(c)
        \/ SaveReturns(c)

(* ------------------- a table that already holds rows ------------------ *)

\* psychedelic_access as the server may find it when it starts: empty, or
\* with a row written earlier.
SeedTables ==
    { <<>>, <<Row(toLowerCase(Mdma), US, JStr(<<"Banned">>), JNull, 0)>> }

WarmInit ==
    /\ search = SearchIdle
    /\ store \in SeedTables
    /\ now = 0
    /\ served = 0
    /\ populated = {}
    /\ req = [c \in Conns |-> Idle]
    /\ batch = <<>>
    /\ applied = <<>>
    /\ once = <<>>

\* The /api/predict requests of a server started over such a table.
WarmSpec == WarmInit /\ [][PredictNext]_vars

(* ------------------------ /api/search-substance ------------------------ *)

\* The /api/search-substance requests received in one run, one at a time.
MaxSearches == 2

Space == " "

RECURSIVE TrimStart(_)
TrimStart(s) == IF s # <<>> /\ Head(s) = Space THEN TrimStart(Tail(s)) ELSE s

RECURSIVE TrimEnd(_)
TrimEnd(s) ==
    IF s # <<>> /\ s[Len(s)] = Space THEN TrimEnd(SubSeq(s, 1, Len(s) - 1)) ELSE s

\* String.prototype.trim
trim(s) == TrimEnd(TrimStart(s))

KCanonicalName == <<"canonical_name">>
Lysergide      == <<"L", "y", "s", "e", "r", "g", "i", "d", "e">>

\* req.body.substance
SearchInputs == {JUndefined, JStr(<<Space>>), JStr(<<"a", "c", "i", "d">>), JStr(Lsd)}

ResolvedReply(canonical) ==
    Text(<<LBrace, TStr(KResolvedName), Colon, TStr(Lsd), Comma,
           TStr(KCanonicalName), Colon, TStr(canonical), RBrace>>)

\* What the resolver may answer to /api/search-substance.
SearchResolverReplies ==
    { Raised } \cup
    { ProviderReply(FALSE, t) :
        t \in { ResolvedReply(toLowerCase(Lysergide)), ResolvedReply(Lysergide),
                ResolvedReply(<<Space>> \o toLowerCase(Lysergide)),
                NameReply(TStr(Lsd)), NoRecordReply, NotJsonText } }

\* What the legal status provider may answer to /api/search-substance: an
\* object of country code to status, or something else.
SearchLegalReplies ==
    { Raised } \cup
    { ProviderReply(FALSE, t) :
        t \in { Text(<<LBrace, TStr(US), Colon, TStr(<<"Banned">>), Comma,
                       TStr(toLowerCase(US)), Colon, TStr(<<"Banned">>), RBrace>>),
                Text(<<LBrace, TStr(CA), Colon, TStr(<<"Unknown">>), RBrace>>),
                EmptyObjectText, NotJsonText, EmptyText } }

\* llama3Resolve from the provider's reply on: JSON.parse in a try, the
\* no-record object on a throw.
llama3Resolve(raw, rawQuery) ==
    IF JSONParse(raw).threw THEN ResolverFallback(rawQuery) ELSE JSONParse(raw).value

\* resolverParsed.canonical_name.trim(): a TypeError unless canonical_name
\* is a string.
CanonicalKey(resolverParsed) ==
    LET name == GetProp(resolverParsed, KCanonicalName) IN
    IF name.threw \/ name.value.t # "string" THEN Threw
    ELSE Returned(JStr(trim(name.value.s)))

\* One row of the map over Object.entries(parsed).
SearchRow(substance, code, status, at) ==
    [substance |-> substance, country_code |-> code, access_status |-> status,
     updated_at |-> at]

\* The handler answers with a status and returns.
SearchRespond(r, status, success, source) ==
    [r EXCEPT !.pc = "done", !.status = status, !.success = success, !.source = source]

\* POST /api/search-substance arrives: the substance is validated and the
\* resolver called.
SearchReceive ==
    /\ search.pc \in {"idle", "done"}
    /\ search.count < MaxSearches
    /\ \E substance \in SearchInputs :
         LET r == [SearchIdle EXCEPT !.substance = substance,
                                     !.count = search.count + 1] IN
         search' = IF ~Truthy(substance) \/ trim(substance.s) = <<>>
                   THEN SearchRespond(r, 400, FALSE, "none")
                   ELSE [r EXCEPT !.pc = "resolving"]
    /\ UNCHANGED <<store, now, served, populated, req, batch, applied, once>>

\* hf.chatCompletion returns or raises: the rest of llama3Resolve, the test
\* of resolved_name and the key, up to the cache lookup.
SearchResolverReturns ==
    /\ search.pc = "resolving"
    /\ \E reply \in SearchResolverReplies :
         LET parsed == llama3Resolve(reply.raw, trim(search.substance.s))
             name   == GetProp(parsed, KResolvedName)
             key    == CanonicalKey(parsed)
             r      == [search EXCEPT !.resolverParsed = parsed]
         IN  search' =
               IF reply.raised THEN SearchRespond(search, 500, FALSE, "none")
               ELSE IF name.threw THEN SearchRespond(r, 500, FALSE, "none")
               ELSE IF ~Truthy(name.value) THEN SearchRespond(r, 200, FALSE, "none")
               ELSE IF key.threw THEN SearchRespond(r, 500, FALSE, "none")
               ELSE [r EXCEPT !.pc = "lookup",
                              !.normalizedSubstance = key.value.s,
                              !.lookupKey = key.value.s]
    /\ UNCHANGED <<store, now, served, populated, req, batch, applied, once>>

\* The store answers GET psychedelic_access?substance=eq.<key>.
SearchLookupReturns ==
    /\ search.pc = "lookup"
    /\ \E ok \in BOOLEAN :
         search' =
           IF ~ok THEN SearchRespond(search, 500, FALSE, "none")
           ELSE IF Len(SelectBySubstance(store, search.lookupKey)) > 0
           THEN SearchRespond(search, 200, TRUE, "cache")
           ELSE [search EXCEPT !.pc = "enriching"]
    /\ UNCHANGED <<store, now, served, populated, req, batch, applied, once>>

\* The legal status provider answers: parse, build the rows, up to the POST.
SearchLegalReturns ==
    /\ search.pc = "enriching"
    /\ \E reply \in SearchLegalReplies :
         LET parsed  == JSONParse(reply.raw)
             all     == ObjectEntries(parsed.value)
             entries == SelectSeq(all.entries, LAMBDA e : IsCountryCode(e.k))
             rows    == [i \in 1..Len(entries) |->
                           SearchRow(search.normalizedSubstance, entries[i].k,
                                     entries[i].v, now)]
         IN  IF reply.raised \/ IsEmptyReply(reply.raw) \/ parsed.threw \/ all.threw
                \/ Len(rows) = 0
             THEN search' = SearchRespond(search, 500, FALSE, "none") /\ now' = now
             ELSE search' = [search EXCEPT !.pc = "saving", !.rows = rows]
                  /\ now' = now + 1
    /\ UNCHANGED <<store, served, populated, req, batch, applied, once>>

\* The store answers the POST with Prefer: resolution=merge-duplicates.
SearchSaveReturns ==
    /\ search.pc = "saving"
    /\ \E ok \in BOOLEAN :
         IF ok
         THEN /\ store' = PostMergeDuplicates(store, search.rows)
              /\ search' = SearchRespond([search EXCEPT !.posted = TRUE],
                                         200, TRUE, "openai")
         ELSE /\ store' = store
              /\ search' = SearchRespond(search, 500, FALSE, "none")
    /\ UNCHANGED <<now, served, populated, req, batch, applied, once>>

SearchNext ==
    \/ SearchReceive
    \/ SearchResolverReturns
    \/ SearchLookupReturns
    \/ SearchLegalReturns
    \/ SearchSaveReturns

SearchSpec == Init /\ [][SearchNext]_vars

(* ------------------------------- claims -------------------------------- *)

InCalls(c, call) == \E i \in 1..Len(req[c].calls) : req[c].calls[i] = call

\* The resolver provider has answered connection c's request with a text.
ResolverAnswered(c) ==
    /\ req[c].route = "predict"
    /\ req[c].calls # <<>>
    /\ req[c].pc # "resolving"
    /\ ~req[c].resolverReply.raised

\* The resolver's parsed answer has a null or absent resolved_name.
NullOrAbsentName(c) ==
    /\ ~req[c].parsed.threw
    /\ req[c].parsed.value.t \notin {"null", "undefined"}
    /\ GetProp(req[c].parsed.value, KResolvedName).value \in {JNull, JUndefined}

\* C1: a request whose resolver result has a null or absent resolved_name
\* ends as unresolved (404, success false), having made the resolver call
\* alone: no cache lookup, no legal status call, no cache write.
C1_UnresolvedShortCircuits ==
    \A c \in Conns :
        ResolverAnswered(c) /\ NullOrAbsentName(c)
        => /\ req[c].pc = "done"
           /\ req[c].resp.status = 404
           /\ req[c].resp.success = FALSE
           /\ req[c].resp.source = "none"
           /\ req[c].calls = <<"resolve">>
           /\ req[c].lookup = "none"
           /\ req[c].saved = "none"

C1_Witness ==
    \E c \in Conns :
        /\ ResolverAnswered(c) /\ NullOrAbsentName(c)
        /\ req[c].resolverReply.raw = NameReply(TNull)
        /\ req[c].pc = "done"
        /\ req[c].resp.status = 404

\* The resolver's text carries no message of its own.
NoExplicitMessage(c) ==
    LET decoded == JSONParse(req[c].resolverReply.raw) IN
    \/ decoded.threw
    \/ decoded.value.t # "object"
    \/ ~HasMember(decoded.value.m, KMessage)

\* C2: an unresolved request whose resolver output carries no message is
\* answered with the message "No known record of '<prompt>'".
C2_FallbackMessageEchoed ==
    \A c \in Conns :
        /\ ResolverAnswered(c) /\ req[c].pc = "done"
        /\ req[c].resp.status = 404
        /\ NoExplicitMessage(c)
        => req[c].resp.message = JStr(NoKnownRecord(req[c].prompt.s))

\* C3: a request whose cache lookup returned rows is answered from the cache
\* with exactly those rows, all of its key, and has called neither the legal
\* status provider nor the cache write.
C3_CachePrecedence ==
    \A c \in Conns :
        req[c].lookup = "ok" /\ Len(req[c].lookupReply.rows) > 0
        => /\ req[c].pc = "done"
           /\ req[c].resp.status = 200
           /\ req[c].resp.success = TRUE
           /\ req[c].resp.source = "cache"
           /\ req[c].resp.data = req[c].lookupReply.rows
           /\ \A i \in 1..Len(req[c].resp.data) :
                req[c].resp.data[i].substance = req[c].resolved.normalizedSubstance
           /\ req[c].calls = <<"resolve", "lookup">>
           /\ req[c].saved = "none"

C3_Witness ==
    \E c \in Conns :
        /\ req[c].lookup = "ok" /\ Len(req[c].lookupReply.rows) > 0
        /\ req[c].pc = "done"
        /\ req[c].resp.source = "cache"

\* Connection c's request resolved to a key that an earlier request, already
\* completed when this one arrived, had computed and written rows for.
ResolvedToWarmKey(c) ==
    /\ req[c].pc \notin {"idle", "resolving"}
    /\ req[c].resolved.success
    /\ req[c].resolved.normalizedSubstance \in req[c].warm

C5_FreshResultSurvivesSaveFailure ==
    \A c \in Conns :
        /\ req[c].route = "predict"
        /\ req[c].pc = "done" /\ req[c].saved \in {"ok", "failed", "skipped"}
        => /\ req[c].resp.status = 200
           /\ req[c].resp.success = TRUE
           /\ req[c].resp.source = "openai"
           /\ req[c].resp.data = req[c].legalRows

C5_Witness ==
    \E c \in Conns :
        /\ req[c].route = "predict"
        /\ req[c].pc = "done" /\ req[c].saved = "failed"
        /\ req[c].resp.source = "openai"
        /\ Len(req[c].resp.data) > 0

\* C6: a request whose cache lookup failed ends with a 500 and makes no
\* legal status call.
C6_LookupFailureEndsRequest ==
    \A c \in Conns :
        req[c].lookup = "failed"
        => /\ req[c].pc = "done"
           /\ req[c].resp.status = 500
           /\ ~InCalls(c, "enrich")

UpperOf(ch) ==
    CASE ch = "a" -> "A" [] ch = "c" -> "C" [] ch = "d" -> "D" [] ch = "l" -> "L"
      [] ch = "m" -> "M" [] ch = "s" -> "S" [] ch = "u" -> "U" [] OTHER -> ch

\* Two strings that differ in letter case at most.
SameButCase(a, b) ==
    Len(a) = Len(b) /\ \A i \in 1..Len(a) : UpperOf(a[i]) = UpperOf(b[i])

\* k is n with every upper-case letter replaced by its lower-case letter.
IsLowercaseOf(k, n) ==
    /\ Len(k) = Len(n)
    /\ \A i \in 1..Len(n) :
         IF n[i] \in UpperLetters THEN UpperOf(k[i]) = n[i] /\ k[i] # n[i]
         ELSE k[i] = n[i]

\* C7: the key of a resolved request is its resolved_name in lower case, and
\* two requests whose resolved_name differ in letter case only have one key.
C7_KeyIsLowercaseName ==
    /\ \A c \in Conns :
         req[c].resolved.success
         => IsLowercaseOf(req[c].resolved.normalizedSubstance,
                          req[c].resolved.resolved_name.s)
    /\ \A c, d \in Conns :
         /\ req[c].resolved.success /\ req[d].resolved.success
         /\ SameButCase(req[c].resolved.resolved_name.s,
                        req[d].resolved.resolved_name.s)
         => req[c].resolved.normalizedSubstance = req[d].resolved.normalizedSubstance

C7_Witness ==
    \E c, d \in Conns :
        /\ req[c].resolved.success /\ req[d].resolved.success
        /\ req[c].resolved.resolved_name # req[d].resolved.resolved_name
        /\ SameButCase(req[c].resolved.resolved_name.s,
                       req[d].resolved.resolved_name.s)
        /\ req[c].resolved.normalizedSubstance = req[d].resolved.normalizedSubstance

NoDuplicatePairs(table) ==
    \A i, j \in 1..Len(table) : SamePair(table[i], table[j]) => i = j

\* C8: two successful calls of saveToSupabaseCache with one record set leave
\* the table as the first call left it, with one row for each (substance,
\* country_code) pair, the pairs of the record set holding its values.
C8_SaveIsIdempotent ==
    applied = <<TRUE, TRUE>>
    => /\ store = once
       /\ NoDuplicatePairs(store)
       /\ \A i \in 1..Len(batch) : \E j \in 1..Len(store) : store[j] = batch[i]

C8_Witness ==
    /\ applied = <<TRUE, TRUE>>
    /\ store = once
    /\ \E i \in 1..Len(batch) : \E j \in 1..Len(store) : j < Len(store) /\ store[j] = batch[i]

\* What JSON.parse makes of each text the resolver may answer with.
Decoded(raw) ==
    CASE raw = NameReply(TStr(Mdma)) -> JObj(<<Member(KResolvedName, JStr(Mdma))>>)
      [] raw = NameReply(TStr(toLowerCase(Mdma))) ->
           JObj(<<Member(KResolvedName, JStr(<<"m", "d", "m", "a">>))>>)
      [] raw = NameReply(TStr(Lsd)) -> JObj(<<Member(KResolvedName, JStr(Lsd))>>)
      [] raw = NoRecordReply ->
           JObj(<<Member(KResolvedName, JNull),
                  Member(KMessage, JStr(NoKnownRecord(Unknown)))>>)
      [] raw = NameReply(TNull) -> JObj(<<Member(KResolvedName, JNull)>>)
      [] raw = NameReply(TStr(<<>>)) -> JObj(<<Member(KResolvedName, JStr(<<>>))>>)
      [] raw = NameReply(TNum(<<"5">>)) -> JObj(<<Member(KResolvedName, JNum(<<"5">>))>>)
      [] raw = EmptyObjectText -> JObj(<<>>)
      [] raw = NullText -> JNull
      [] raw = NumberText -> JNum(<<"5">>)
      [] raw = StringText -> JStr(Mdma)
      [] raw = EmptyArrayText -> JArr(<<>>)

Undecodable == {NotJsonText, EmptyText, NoContent, TruncatedText}

\* C9: safeParseJSON never raises; it returns the fallback for "not json",
\* "" and undefined, and the decoded value for every valid text, "{}"
\* included.
C9_SafeParse ==
    \A c \in Conns :
        ResolverAnswered(c)
        => /\ ~req[c].parsed.threw
           /\ req[c].resolverReply.raw \in Undecodable
              => req[c].parsed.value = ResolverFallback(req[c].prompt.s)
           /\ req[c].resolverReply.raw \notin Undecodable
              => req[c].parsed.value = Decoded(req[c].resolverReply.raw)

C9_Witness ==
    \E c, d \in Conns :
        /\ ResolverAnswered(c) /\ ResolverAnswered(d)
        /\ req[c].resolverReply.raw = EmptyObjectText
        /\ req[c].parsed.value = JObj(<<>>)
        /\ req[d].resolverReply.raw = NotJsonText
        /\ req[d].parsed.value = ResolverFallback(req[d].prompt.s)

\* C10: a request the resolver answered, with whatever text, does not end
\* in a 500 at the resolution stage.
C10_ResolverTextNeverFails ==
    \A c \in Conns :
        ResolverAnswered(c) /\ req[c].pc = "done" /\ req[c].calls = <<"resolve">>
        => req[c].resp.status # 500

\* The enrichment provider has answered connection c's /api/predict request
\* with a text, and the request is over.
EnrichmentAnswered(c) ==
    /\ req[c].route = "predict"
    /\ InCalls(c, "enrich")
    /\ req[c].pc = "done"
    /\ ~req[c].legalReply.raised

\* C11: a request whose enrichment provider answered with an empty or an
\* unparseable body has an empty record list and does not end in a 500.
C11_EmptyBodyIsRecoverable ==
    \A c \in Conns :
        /\ EnrichmentAnswered(c)
        /\ req[c].legalReply.raw \in {EmptyText, NoContent, NotJsonText}
        => /\ req[c].legalRows = <<>>
           /\ req[c].resp.status # 500

InTable(table, row) == \E j \in 1..Len(table) : table[j] = row

\* Connection c's POST of rows to the store succeeds in this step.
Wrote(c) ==
    /\ req[c].pc \in {"saving", "refresh_saving"}
    /\ req'[c] # req[c]
    /\ req'[c].saved = "ok"

\* C12: in every step the store holds at most one row per (substance,
\* country_code) pair; a successful upsert leaves each pair it posted with the
\* posted row and every other row as it was, and no other step changes the
\* store.
C12_LastWriteWins ==
    [][/\ NoDuplicatePairs(store')
       /\ \A c \in Conns :
            Wrote(c)
            => /\ \A i \in 1..Len(req[c].legalRows) : InTable(store', req[c].legalRows[i])
               /\ \A j \in 1..Len(store) :
                    (\A i \in 1..Len(req[c].legalRows) :
                        ~SamePair(store[j], req[c].legalRows[i]))
                    => InTable(store', store[j])
               /\ Len(store') <= Len(store) + Len(req[c].legalRows)
       /\ (\A c \in Conns : ~Wrote(c)) => store' = store]_vars

\* Two concurrent cold requests for one key have both computed and written
\* rows; the store holds the rows of one of them and not the other's.
C12_Witness ==
    \E c, d \in Conns :
        /\ c # d
        /\ req[c].route = "predict" /\ req[d].route = "predict"
        /\ req[c].pc = "done" /\ req[d].pc = "done"
        /\ req[c].lookup = "ok" /\ req[c].lookupReply.rows = <<>>
        /\ req[d].lookup = "ok" /\ req[d].lookupReply.rows = <<>>
        /\ req[c].resolved.normalizedSubstance = req[d].resolved.normalizedSubstance
        /\ req[c].saved = "ok" /\ req[d].saved = "ok"
        /\ NoDuplicatePairs(store)
        /\ \A j \in 1..Len(req[d].legalRows) : InTable(store, req[d].legalRows[j])
        /\ \E i \in 1..Len(req[c].legalRows) :
             /\ ~InTable(store, req[c].legalRows[i])
             /\ \E j \in 1..Len(req[d].legalRows) :
                  SamePair(req[c].legalRows[i], req[d].legalRows[j])

CountCalls(c, call) ==
    Cardinality({i \in 1..Len(req[c].calls) : req[c].calls[i] = call})

\* A /api/refresh request has been answered 200.
Refreshed(c) ==
    req[c].route = "refresh" /\ req[c].pc = "done" /\ req[c].resp.status = 200

\* A /api/refresh request calls neither the resolver nor the cache lookup.
RefreshBypasses(c) ==
    /\ ~InCalls(c, "resolve") /\ ~InCalls(c, "lookup")
    /\ req[c].lookup = "none"

\* An entry of per-entity record counts.
CountEntry(normalized, data) == [substance |-> normalized, count |-> Len(data)]

PredictDone(c) == req[c].route = "predict" /\ req[c].pc = "done"

\* A provider call of the request raised, and the failure reached the route
\* handler.
CollaboratorFailed(c) ==
    \/ req[c].calls = <<"resolve">> /\ req[c].resolverReply.raised
    \/ InCalls(c, "enrich") /\ req[c].legalReply.raised

\* The resolver answered with an object that names no substance.
Unresolved(c) ==
    /\ ResolverAnswered(c)
    /\ ~req[c].parsed.threw
    /\ req[c].parsed.value.t \notin {"null", "undefined"}
    /\ ~Truthy(GetProp(req[c].parsed.value, KResolvedName).value)

\* C14: a finished /api/predict request has status 400, with no collaborator
\* called, when its prompt is missing or empty; otherwise 500 when a
\* collaborator failure propagated, otherwise 404 when it is unresolved,
\* otherwise 200 with success true.
C14_StatusMapping ==
    \A c \in Conns :
        PredictDone(c)
        => IF ~Truthy(req[c].prompt)
           THEN req[c].resp.status = 400 /\ req[c].calls = <<>>
           ELSE IF CollaboratorFailed(c) THEN req[c].resp.status = 500
           ELSE IF Unresolved(c) THEN req[c].resp.status = 404
           ELSE req[c].resp.status = 200 /\ req[c].resp.success = TRUE

\* The enrichment provider's text as JSON.parse reads it, for a request it
\* answered with the text of an object.
LegalObject(c) == JSONParse(req[c].legalReply.raw).value

\* The entries of the provider's object under a two-upper-case-letter key.
CodeEntries(c) ==
    SelectSeq(LegalObject(c).m, LAMBDA e : IsCountryCode(e.k))

\* The provider answered connection c's request with the text of an object.
AnsweredWithObject(c) ==
    /\ EnrichmentAnswered(c)
    /\ ~IsEmptyReply(req[c].legalReply.raw)
    /\ ~JSONParse(req[c].legalReply.raw).threw
    /\ LegalObject(c).t = "object"

\* C15: for a provider object, getSubstanceLegalStatus does not fail and
\* yields one record for each key of two upper-case letters, in order, and
\* none for any other key, whatever the values are.
C15_OneRecordPerCode ==
    \A c \in Conns :
        AnsweredWithObject(c)
        => /\ req[c].resp.status # 500
           /\ Len(req[c].legalRows) = Len(CodeEntries(c))
           /\ \A i \in 1..Len(req[c].legalRows) :
                req[c].legalRows[i].country_code = CodeEntries(c)[i].k

StatusEnum ==
    { JStr(<<"Approved Medical Use">>), JStr(<<"Banned">>),
      JStr(<<"Limited Access Trials">>), JStr(<<"Unknown">>) }

\* C16: every record produced by getSubstanceLegalStatus, in a response or in
\* the store, has one of the four access statuses.
C16_StatusIsEnumerated ==
    /\ \A c \in Conns :
         /\ \A i \in 1..Len(req[c].legalRows) :
              req[c].legalRows[i].access_status \in StatusEnum
         /\ \A i \in 1..Len(req[c].resp.data) :
              req[c].resp.data[i].access_status \in StatusEnum
    /\ \A j \in 1..Len(store) : store[j].access_status \in StatusEnum

\* In this step connection c's handler calls saveToSupabaseCache with an
\* empty record list.
SavesNothing(c) ==
    /\ req[c].pc \in {"enriching", "refreshing"}
    /\ req'[c] # req[c]
    /\ req'[c].legalRows = <<>>
    /\ ~(req'[c].pc = "done" /\ req'[c].resp.status = 500)

\* C17: saveToSupabaseCache called with an empty record list sends no
\* request to the store, leaves the store unchanged and reports success.
C17_EmptySaveReportsSuccess ==
    [][\A c \in Conns :
         SavesNothing(c)
         => /\ req'[c].saved = "skipped"
            /\ ~\E i \in 1..Len(req'[c].calls) :
                  i > Len(req[c].calls) /\ req'[c].calls[i] = "save"
            /\ req'[c].pc \notin {"saving", "refresh_saving"}
            /\ store' = store
            /\ req'[c].saveReturned = "true"]_vars

\* The enrichment provider call of connection c's request raised.
EnrichmentRaised(c) ==
    /\ InCalls(c, "enrich")
    /\ req[c].pc \notin {"enriching", "refreshing"}
    /\ req[c].legalReply.raised

\* C18: a /api/predict or /api/refresh request whose enrichment provider call
\* raised has ended with one 500 response; that enrichment call is its last
\* call, made once for the substance, with no upsert after it.
C18_EnrichmentFailureEndsRequest ==
    \A c \in Conns :
        EnrichmentRaised(c)
        => /\ req[c].pc = "done"
           /\ req[c].sent = 1
           /\ req[c].resp.status = 500
           /\ req[c].resp.success = FALSE
           /\ req[c].calls[Len(req[c].calls)] = "enrich"
           /\ req[c].route = "predict" => CountCalls(c, "enrich") = 1
           /\ req[c].route = "refresh"
              => /\ CountCalls(c, "enrich") = req[c].idx
                 /\ Len(req[c].results) = req[c].idx - 1

C18_Witness ==
    \E c, d \in Conns :
        /\ EnrichmentRaised(c) /\ req[c].route = "predict"
        /\ req[c].resp.status = 500
        /\ EnrichmentRaised(d) /\ req[d].route = "refresh"
        /\ req[d].idx = 2 /\ req[d].calls = <<"enrich", "save", "enrich">>
        /\ req[d].resp.status = 500

StageRank(pc) ==
    CASE pc = "idle" -> 0
      [] pc = "resolving" -> 1
      [] pc = "lookup" -> 2
      [] pc = "enriching" -> 3
      [] pc = "saving" -> 4
      [] OTHER -> 5

CallRank(call) ==
    CASE call = "resolve" -> 1
      [] call = "lookup" -> 2
      [] call = "enrich" -> 3
      [] OTHER -> 4

\* Connection c has a /api/predict request in progress.
PredictInFlight(c) ==
    req[c].route = "predict" /\ req[c].pc \notin {"idle", "done"}

\* C19: the calls of a /api/predict request are in stage order, each stage at
\* most once, and every step of the request moves it to a later stage.
C19_SingleForwardPass ==
    [][\A c \in Conns :
         /\ req'[c].route = "predict"
            => \A i, j \in 1..Len(req'[c].calls) :
                 i < j => CallRank(req'[c].calls[i]) < CallRank(req'[c].calls[j])
         /\ PredictInFlight(c) /\ req'[c] # req[c]
            => /\ StageRank(req'[c].pc) > StageRank(req[c].pc)
               /\ Len(req'[c].calls) >= Len(req[c].calls)
               /\ \A i \in 1..Len(req[c].calls) : req'[c].calls[i] = req[c].calls[i]]_vars

C19_Witness ==
    \E c \in Conns :
        /\ PredictDone(c)
        /\ req[c].calls = <<"resolve", "lookup", "enrich", "save">>
        /\ req[c].sent = 1

(* ------------------ every collaborator call returns ------------------- *)

\* The collaborator call that connection c's request awaits returns, with a
\* result or with an error. A request awaits one call at a time.
Returns(c) ==
    \/ ResolverReturns(c)
    \/ LookupReturns(c)
    \/ LegalStatusReturns(c)
    \/ SaveReturns(c)

\* Every call of a collaborator in flight eventually returns: weak fairness
\* of the step that takes the return.
LiveSpec ==
    /\ Init
    /\ [][PredictNext]_vars
    /\ \A c \in Conns : WF_vars(Returns(c))

LookupKey(c) == req[c].resolved.normalizedSubstance

\* C21: every record a /api/predict request computes carries the key of its
\* cache lookup as substance, and when its upsert succeeds a lookup with that
\* key finds every row it posted.
C21_WrittenUnderLookupKey ==
    [][\A c \in Conns :
         req'[c].route = "predict"
         => /\ \A i \in 1..Len(req'[c].lookupReply.rows) :
                 req'[c].lookupReply.rows[i].substance = LookupKey(c)'
            /\ \A i \in 1..Len(req'[c].legalRows) :
                 req'[c].legalRows[i].substance = LookupKey(c)'
            /\ Wrote(c)
               => /\ LookupKey(c)' = LookupKey(c)
                  /\ \A i \in 1..Len(req[c].legalRows) :
                       InTable(SelectBySubstance(store', LookupKey(c)),
                               req[c].legalRows[i])]_vars

\* A request has looked the cache up with its key, missed, and written rows
\* that a lookup with the same key now returns.
C21_Witness ==
    \E c \in Conns :
        /\ PredictDone(c)
        /\ req[c].lookup = "ok" /\ req[c].lookupReply.rows = <<>>
        /\ req[c].saved = "ok"
        /\ Len(req[c].legalRows) = 2
        /\ SelectBySubstance(store, LookupKey(c)) = req[c].legalRows

\* The /api/search-substance request got a resolved_name from the resolver.
SearchResolved ==
    /\ search.pc \notin {"idle", "resolving"}
    /\ search.resolverParsed.t = "object"
    /\ Truthy(GetProp(search.resolverParsed, KResolvedName).value)

\* C22: a /api/search-substance request with a resolved_name does not end
\* in a 500 for want of a canonical_name; when it has one, the key of its
\* cache lookup and of the rows it writes is canonical_name in lower case.
C22_KeyIsLowercaseCanonical ==
    SearchResolved
    => LET canonical == GetProp(search.resolverParsed, KCanonicalName).value IN
       IF canonical.t = "string"
       THEN /\ search.lookupKey = toLowerCase(canonical.s)
            /\ \A i \in 1..Len(search.rows) :
                 search.rows[i].substance = toLowerCase(canonical.s)
       ELSE ~(search.pc = "done" /\ search.status = 500
              /\ search.lookupKey = <<>>)

\* C23: the store changes only in the step in which the upsert of a request
\* that made the enrichment call and got at least one record succeeds; a
\* step that ends a /api/predict request as invalid, unresolved, cache hit or
\* failed leaves the store as it was.
C23_OnlyEnrichedRequestsWrite ==
    [][/\ store' # store
          => \E c \in Conns :
               /\ Wrote(c)
               /\ InCalls(c, "enrich") /\ ~req[c].legalReply.raised
               /\ Len(req[c].legalRows) > 0
               /\ req[c].calls[Len(req[c].calls)] = "save"
       /\ \A c \in Conns :
            /\ req'[c] # req[c]
            /\ req'[c].route = "predict" /\ req'[c].pc = "done"
            /\ \/ req'[c].resp.status \in {400, 404, 500}
               \/ req'[c].resp.source = "cache"
            => store' = store]_vars

\* One request wrote rows; a later one failed at enrichment, and the store
\* is as the writer left it.
C23_Witness ==
    \E c, d \in Conns :
        /\ c # d
        /\ PredictDone(d) /\ req[d].saved = "ok"
        /\ store = req[d].legalRows
        /\ PredictDone(c) /\ req[c].warm # {}
        /\ EnrichmentRaised(c) /\ req[c].resp.status = 500

\* Connection c's request resolved to a key for which a request that had
\* finished before it arrived was answered with a fresh, empty record list.
ResolvedToColdKey(c) ==
    /\ req[c].route = "predict"
    /\ req[c].pc \notin {"idle", "resolving", "lookup"}
    /\ req[c].resolved.success
    /\ req[c].resolved.normalizedSubstance \in req[c].cold

\* C24: a request resolving to a key for which the request before it got an
\* empty fresh result misses the cache and calls the enrichment provider.
C24_EmptyResultRefetched ==
    \A c \in Conns :
        ResolvedToColdKey(c)
        => /\ ~req[c].cache.found
           /\ InCalls(c, "enrich")
           /\ req[c].pc = "done" => req[c].resp.source # "cache"

\* In this step the enrichment call for the substance at idx raises.
RefreshFails(c) ==
    /\ req[c].route = "refresh" /\ req[c].pc = "refreshing"
    /\ req'[c].pc = "done" /\ req'[c].legalReply.raised

\* C25: /api/refresh takes its substances in list order, one at a time: the
\* enrichment of a substance starts when the results of all before it are in,
\* their upsert attempts over. When enrichment raises for the k-th substance
\* the response is a 500 without results, no later substance is processed,
\* and the store keeps the rows upserted before.
C25_RefreshInOrderNoRollback ==
    [][\A c \in Conns :
         /\ req'[c].route = "refresh" /\ req'[c].idx > 0
            => /\ \A i \in 1..Len(req'[c].results) :
                    req'[c].results[i].substance
                      = toLowerCase(req'[c].substances.m[i].v.s)
               /\ req'[c].pc \in {"refreshing", "refresh_saving"}
                  => /\ Len(req'[c].results) = req'[c].idx - 1
                     /\ CountCalls(c, "enrich")' = req'[c].idx
               /\ req'[c].pc = "refreshing"
                  => req'[c].calls[Len(req'[c].calls)] = "enrich"
         /\ req[c].route = "refresh" /\ req[c].pc # "done" /\ req'[c] # req[c]
            => /\ req'[c].idx \in {req[c].idx, req[c].idx + 1}
               /\ Len(req'[c].results) >= Len(req[c].results)
               /\ \A i \in 1..Len(req[c].results) :
                    req'[c].results[i] = req[c].results[i]
         /\ RefreshFails(c)
            => /\ store' = store
               /\ req'[c].resp.status = 500
               /\ req'[c].resp.results = <<>> /\ req'[c].resp.refreshed = 0
               /\ req'[c].idx = req[c].idx
               /\ CountCalls(c, "enrich")' = req[c].idx
               /\ req'[c].results = req[c].results]_vars

\* A refresh of two substances failed on the second: a 500 without results,
\* and the rows upserted for the first are in the store.
C25_Witness ==
    \E c \in Conns :
        /\ req[c].route = "refresh" /\ req[c].pc = "done"
        /\ req[c].legalReply.raised
        /\ Len(req[c].substances.m) = 2 /\ req[c].idx = 2
        /\ req[c].resp.status = 500 /\ req[c].resp.results = <<>>
        /\ Len(req[c].results) = 1
        /\ req[c].results[1].data # <<>>
        /\ \A j \in 1..Len(req[c].results[1].data) :
             InTable(store, req[c].results[1].data[j])

====
